---- MODULE Spec2Model ----
(***************************************************************************)
(* Puzzle layout engine of russian-word-puzzle: the crossword generator    *)
(* (multi-attempt search, crop, clue numbering), the word-search generator *)
(* and the scramble generator.                                             *)
(*                                                                         *)
(* Characters are numbers: 1..33 are the letters of the fill alphabet in   *)
(* its order, EMPTY (0) is the empty string '' of an unfilled cell.  A word *)
(* is a sequence of characters; JS index i is TLA+ index i+1.  A grid is a  *)
(* function on <<row, col>> pairs, 0-based like the source.                 *)
(***************************************************************************)
EXTENDS Integers, Sequences, FiniteSets, TLC

VARIABLES
  pc,            \* position of the running call
  ctor,          \* the constructor's arguments [width, height]
  wordsData,     \* argument of generate
  width,         \* this.width
  height,        \* this.height
  grid,          \* this.grid
  placedWords,   \* this.placedWords
  sortedWords,   \* the word order of the crossword attempt / of the word search
  idx,           \* position of the for-of loop over the words (1-based)
  attempt,       \* loop counter of CrosswordGenerator.generate / of WordSearchGenerator._placeWord
  bestGrid,      \* [null |-> TRUE] or [null |-> FALSE, g |-> a grid]
  bestPlaced,
  bestScore,
  scrambles,     \* ScrambleGenerator.generate: the result list
  letters,       \* the array being shuffled
  scrambledWord,
  scrAttempts,   \* the local `attempts` of the reshuffle loop
  prevGrid,      \* validator runs: the grid before the call
  lastCall       \* validator runs: the arguments of the accepted call

genVars == <<width, height, grid, placedWords>>
loopVars == <<sortedWords, idx, attempt>>
bestVars == <<bestGrid, bestPlaced, bestScore>>
scrVars == <<scrambles, letters, scrambledWord, scrAttempts>>
valVars == <<prevGrid, lastCall>>

vars == <<pc, ctor, wordsData, genVars, loopVars, bestVars, scrVars, valVars>>

----------------------------------------------------------------------------
(* Bounds of the model *)

\* grid sides offered to the constructor are MinSide..MaxSide
MinSide == 3
MaxSide == 4

\* word lists hold at most MaxWords items
MaxWords == 3

\* word search: sides up to WS_MaxSide, lists of at most WS_MaxWords items, and
\* the fill pass draws among the first FillDraws letters of the alphabet
WS_MaxSide == 3
WS_MaxWords == 2
FillDraws == 2

\* scramble: lists of at most SCR_MaxWords items
SCR_MaxWords == 3

\* validator runs: grids of 2..V_MaxSide a side and at most V_MaxCells cells
\* over V_Letters letters, words of at most V_MaxLen letters
V_MaxSide == 3
V_MaxCells == 6
V_Letters == 2
V_MaxLen == 3

(* Program constants *)

EMPTY == 0
attempts == 120
pickLimit == 5
drawLimit == 50
reshuffleLimit == 5
alphabetLength == 33

Min(a, b) == IF a < b THEN a ELSE b
Max(a, b) == IF a > b THEN a ELSE b
Abs(a) == IF a < 0 THEN 0 - a ELSE a

----------------------------------------------------------------------------
(* Grid *)

Cells(w, h) == (0 .. h - 1) \X (0 .. w - 1)

\* Array(height).fill(null).map(() => Array(width).fill(''))
EmptyGrid(w, h) == [p \in Cells(w, h) |-> EMPTY]

\* the i-th cell (0-based) of a word starting at (row, col)
\* mutant of DirDelta: diagonal-up steps down like diagonal-down
DirDelta_UpAsDown(direction) ==
  CASE direction = "horizontal"    -> <<0, 1>>
    [] direction = "vertical"      -> <<1, 0>>
    [] direction = "diagonal-down" -> <<1, 1>>
    [] direction = "diagonal-up"   -> <<1, 1>>

DirDelta(direction) ==
  CASE direction = "horizontal"    -> <<0, 1>>
    [] direction = "vertical"      -> <<1, 0>>
    [] direction = "diagonal-down" -> <<1, 1>>
    [] direction = "diagonal-up"   -> <<-1, 1>>

CellAt(row, col, direction, i) ==
  <<row + i * DirDelta(direction)[1], col + i * DirDelta(direction)[2]>>

----------------------------------------------------------------------------
(* CrosswordGenerator: validator and writer *)

\* mutant of CW_cellFits: the letter already in the cell is not compared
CW_cellFits_NoCompat(g, w, h, word, row, col, direction, i) ==
  IF direction = "horizontal"
  THEN LET cell == g[<<row, col + i>>] IN
       cell = EMPTY =>
         /\ ~(row > 0 /\ g[<<row - 1, col + i>>] # EMPTY)
         /\ ~(row < h - 1 /\ g[<<row + 1, col + i>>] # EMPTY)
  ELSE LET cell == g[<<row + i, col>>] IN
       cell = EMPTY =>
         /\ ~(col > 0 /\ g[<<row + i, col - 1>>] # EMPTY)
         /\ ~(col < w - 1 /\ g[<<row + i, col + 1>>] # EMPTY)

\* mutant of CW_cellFits: the perpendicular neighbours are not looked at
CW_cellFits_NoNeighbours(g, w, h, word, row, col, direction, i) ==
  IF direction = "horizontal"
  THEN LET cell == g[<<row, col + i>>] IN ~(cell # EMPTY /\ cell # word[i + 1])
  ELSE LET cell == g[<<row + i, col>>] IN ~(cell # EMPTY /\ cell # word[i + 1])

\* _canPlace, the body of the loop over the letters: the cell is empty or holds
\* word[i], and a cell that is still empty has empty perpendicular neighbours
CW_cellFits(g, w, h, word, row, col, direction, i) ==
  IF direction = "horizontal"
  THEN LET cell == g[<<row, col + i>>] IN
       /\ ~(cell # EMPTY /\ cell # word[i + 1])
       /\ cell = EMPTY =>
            /\ ~(row > 0 /\ g[<<row - 1, col + i>>] # EMPTY)
            /\ ~(row < h - 1 /\ g[<<row + 1, col + i>>] # EMPTY)
  ELSE LET cell == g[<<row + i, col>>] IN
       /\ ~(cell # EMPTY /\ cell # word[i + 1])
       /\ cell = EMPTY =>
            /\ ~(col > 0 /\ g[<<row + i, col - 1>>] # EMPTY)
            /\ ~(col < w - 1 /\ g[<<row + i, col + 1>>] # EMPTY)

\* mutant of CW_canPlace: the cells before and after the word are not looked at
CW_canPlace_NoEndCaps(g, w, h, word, row, col, direction) ==
  LET n == Len(word) IN
  IF direction = "horizontal"
  THEN /\ ~(col < 0 \/ col + n > w)
       /\ ~(row < 0 \/ row >= h)
       /\ \A i \in 0 .. n - 1 : CW_cellFits(g, w, h, word, row, col, direction, i)
  ELSE /\ ~(row < 0 \/ row + n > h)
       /\ ~(col < 0 \/ col >= w)
       /\ \A i \in 0 .. n - 1 : CW_cellFits(g, w, h, word, row, col, direction, i)

\* _canPlace: bounds, the loop over the letters, end caps.  Any direction other
\* than horizontal takes the vertical branch.
CW_canPlace(g, w, h, word, row, col, direction) ==
  LET n == Len(word) IN
  IF direction = "horizontal"
  THEN /\ ~(col < 0 \/ col + n > w)
       /\ ~(row < 0 \/ row >= h)
       /\ \A i \in 0 .. n - 1 : CW_cellFits(g, w, h, word, row, col, direction, i)
       /\ ~(col > 0 /\ g[<<row, col - 1>>] # EMPTY)
       /\ ~(col + n < w /\ g[<<row, col + n>>] # EMPTY)
  ELSE /\ ~(row < 0 \/ row + n > h)
       /\ ~(col < 0 \/ col >= w)
       /\ \A i \in 0 .. n - 1 : CW_cellFits(g, w, h, word, row, col, direction, i)
       /\ ~(row > 0 /\ g[<<row - 1, col>>] # EMPTY)
       /\ ~(row + n < h /\ g[<<row + n, col>>] # EMPTY)

\* the cells _addWordToGrid writes, as a function from cell to letter
CW_written(word, row, col, direction) ==
  LET at(i) == IF direction = "horizontal" THEN <<row, col + i>> ELSE <<row + i, col>>
  IN  [p \in {at(i) : i \in 0 .. Len(word) - 1} |->
         word[(CHOOSE i \in 0 .. Len(word) - 1 : at(i) = p) + 1]]

\* _addWordToGrid, the grid part: word[i] is written over whatever is there
CW_addWordToGrid(g, word, row, col, direction) ==
  LET wr == CW_written(word, row, col, direction) IN
  [p \in DOMAIN g |-> IF p \in DOMAIN wr THEN wr[p] ELSE g[p]]

\* mutant of CW_pushPlaced: the definition is not carried into the entry
CW_pushPlaced_NoDefinition(placed, item, row, col, direction) ==
  Append(placed, [word |-> item.word, definition |-> "",
                  row |-> row, col |-> col, direction |-> direction, number |-> 0])

\* _addWordToGrid, the placedWords.push part: number is a placeholder 0
CW_pushPlaced(placed, item, row, col, direction) ==
  Append(placed, [word |-> item.word, definition |-> item.definition,
                  row |-> row, col |-> col, direction |-> direction, number |-> 0])

----------------------------------------------------------------------------
(* CrosswordGenerator: bounding box and scores *)

Occupied(g) == {p \in DOMAIN g : g[p] # EMPTY}

SetMin(S) == CHOOSE x \in S : \A y \in S : x <= y
SetMax(S) == CHOOSE x \in S : \A y \in S : x >= y

\* _boundingBox: null (here NoBox) when no cell is filled
NoBox == [none |-> TRUE]

CW_boundingBox(g) ==
  LET occ == Occupied(g) IN
  IF occ = {} THEN NoBox
  ELSE [none |-> FALSE,
        minR |-> SetMin({p[1] : p \in occ}), maxR |-> SetMax({p[1] : p \in occ}),
        minC |-> SetMin({p[2] : p \in occ}), maxC |-> SetMax({p[2] : p \in occ})]

BoxArea(b) == (b.maxR - b.minR + 1) * (b.maxC - b.minC + 1)

\* _boundingBoxWithPlacement: with no current box the +-Infinity seeds give
\* the box of the placement alone
CW_boundingBoxWithPlacement(word, row, col, direction, current) ==
  LET endR == IF direction = "horizontal" THEN row ELSE row + Len(word) - 1
      endC == IF direction = "horizontal" THEN col + Len(word) - 1 ELSE col
  IN  IF current.none
      THEN [none |-> FALSE, minR |-> row, maxR |-> endR, minC |-> col, maxC |-> endC]
      ELSE [none |-> FALSE,
            minR |-> Min(current.minR, row), maxR |-> Max(current.maxR, endR),
            minC |-> Min(current.minC, col), maxC |-> Max(current.maxC, endC)]

\* _bboxAreaDeltaIfPlaced
CW_bboxAreaDeltaIfPlaced(g, word, row, col, direction) ==
  LET before == CW_boundingBox(g)
      after == CW_boundingBoxWithPlacement(word, row, col, direction, before)
  IN  BoxArea(after) - (IF before.none THEN 0 ELSE BoxArea(before))

\* _countIntersectionsForPlacement
CW_countIntersectionsForPlacement(g, w, h, word, row, col, direction) ==
  Cardinality({i \in 0 .. Len(word) - 1 :
     LET p == IF direction = "horizontal" THEN <<row, col + i>> ELSE <<row + i, col>>
     IN  /\ p[1] >= 0 /\ p[1] < h /\ p[2] >= 0 /\ p[2] < w
         /\ g[p] = word[i + 1]})

\* _scorePlacement times 10, an integer:
\*   intersections*120 - bboxDelta*8 - distToCenter*0.2
\* with distToCenter = |pr - (h-1)/2| + |pc - (w-1)/2| and the placement centre
\* (pr, pc) a multiple of 1/2, so 2*distToCenter is the integer dist2 below.
\* Two candidates compare the same way on the scaled value as on the doubles:
\* distinct values differ by at least 0.1.
CW_scorePlacement10(g, w, h, word, row, col, direction) ==
  LET inter == CW_countIntersectionsForPlacement(g, w, h, word, row, col, direction)
      delta == CW_bboxAreaDeltaIfPlaced(g, word, row, col, direction)
      pr2 == IF direction = "horizontal" THEN 2 * row ELSE 2 * row + (Len(word) - 1)
      pc2 == IF direction = "horizontal" THEN 2 * col + (Len(word) - 1) ELSE 2 * col
      dist2 == Abs(pr2 - (h - 1)) + Abs(pc2 - (w - 1))
  IN  inter * 1200 - delta * 80 - dist2

\* _scoreCurrentLayout as an exact fraction num/den (den = bboxArea * width * height):
\*   placed*700 + occupied*20 + (occupied/bboxArea)*2000 + (bboxArea/(w*h))*300
\* -Infinity when nothing is placed.
NegInf == [inf |-> TRUE, num |-> 0, den |-> 1]

CW_scoreCurrentLayout(g, w, h, placed) ==
  IF Len(placed) = 0 THEN NegInf
  ELSE LET occ == Cardinality(Occupied(g))
           bbox == CW_boundingBox(g)
           area == IF bbox.none THEN 0 ELSE BoxArea(bbox)
       IN  IF area = 0
           THEN [inf |-> FALSE, num |-> Len(placed) * 700 + occ * 20, den |-> 1]
           ELSE [inf |-> FALSE,
                 num |-> (Len(placed) * 700 + occ * 20) * area * w * h
                         + occ * 2000 * w * h + 300 * area * area,
                 den |-> area * w * h]

\* mutant of ScoreGreater: score >= bestScore
ScoreGreater_OrEqual(a, b) ==
  IF a.inf THEN FALSE
  ELSE IF b.inf THEN TRUE
  ELSE a.num * b.den >= b.num * a.den

\* score > bestScore
ScoreGreater(a, b) ==
  IF a.inf THEN FALSE
  ELSE IF b.inf THEN TRUE
  ELSE a.num * b.den > b.num * a.den

----------------------------------------------------------------------------
(* CrosswordGenerator._placeWord *)

Placement(r, c, direction) == [skip |-> FALSE, r |-> r, c |-> c, direction |-> direction]
Skip == [skip |-> TRUE, r |-> 0, c |-> 0, direction |-> "horizontal"]

\* mutant of CW_candidatesAt: the cell is not required to hold word[i]
CW_candidatesAt_AnyCell(g, w, h, word, i, r, c) ==
  (IF CW_canPlace(g, w, h, word, r, c - i, "horizontal")
   THEN <<Placement(r, c - i, "horizontal")>> ELSE <<>>)
  \o
  (IF CW_canPlace(g, w, h, word, r - i, c, "vertical")
   THEN <<Placement(r - i, c, "vertical")>> ELSE <<>>)

\* the pushes of one (i, r, c) iteration of the triple loop: horizontal, then vertical
CW_candidatesAt(g, w, h, word, i, r, c) ==
  IF g[<<r, c>>] # word[i + 1] THEN <<>>
  ELSE (IF CW_canPlace(g, w, h, word, r, c - i, "horizontal")
        THEN <<Placement(r, c - i, "horizontal")>> ELSE <<>>)
       \o
       (IF CW_canPlace(g, w, h, word, r - i, c, "vertical")
        THEN <<Placement(r - i, c, "vertical")>> ELSE <<>>)

\* possiblePlacements, in push order: the loops over c, over r and over i
RECURSIVE CW_candidatesCols(_, _, _, _, _, _, _)
CW_candidatesCols(g, w, h, word, i, r, c) ==
  IF c >= w THEN <<>>
  ELSE CW_candidatesAt(g, w, h, word, i, r, c)
       \o CW_candidatesCols(g, w, h, word, i, r, c + 1)

RECURSIVE CW_candidatesRows(_, _, _, _, _, _)
CW_candidatesRows(g, w, h, word, i, r) ==
  IF r >= h THEN <<>>
  ELSE CW_candidatesCols(g, w, h, word, i, r, 0)
       \o CW_candidatesRows(g, w, h, word, i, r + 1)

RECURSIVE CW_candidatesFrom(_, _, _, _, _)
CW_candidatesFrom(g, w, h, word, i) ==
  IF i >= Len(word) THEN <<>>
  ELSE CW_candidatesRows(g, w, h, word, i, 0)
       \o CW_candidatesFrom(g, w, h, word, i + 1)

\* mutant of CW_possiblePlacements: the loop over the letters starts at i = 1
CW_possiblePlacements_SkipFirstLetter(g, w, h, word) == CW_candidatesFrom(g, w, h, word, 1)

CW_possiblePlacements(g, w, h, word) == CW_candidatesFrom(g, w, h, word, 0)

\* .sort((a, b) => b.score - a.score): descending, stable (equal scores keep
\* their push order)
RemoveAt(seq, k) == [j \in 1 .. Len(seq) - 1 |-> IF j < k THEN seq[j] ELSE seq[j + 1]]

\* mutant of SortByScoreDesc: the list is left in push order
SortByScoreDesc_Unsorted(seq) == seq

RECURSIVE SortByScoreDesc(_)
SortByScoreDesc(seq) ==
  IF seq = <<>> THEN <<>>
  ELSE LET top == SetMax({seq[j].score : j \in 1 .. Len(seq)})
           k == SetMin({j \in 1 .. Len(seq) : seq[j].score = top})
       IN  <<seq[k]>> \o SortByScoreDesc(RemoveAt(seq, k))

CW_scored(g, w, h, word) ==
  LET cands == CW_possiblePlacements(g, w, h, word) IN
  SortByScoreDesc([j \in 1 .. Len(cands) |->
     [p |-> cands[j],
      score |-> CW_scorePlacement10(g, w, h, word, cands[j].r, cands[j].c,
                                    cands[j].direction)]])

\* mutant of CW_placeWordChoices: the first word starts at the top-left corner
CW_placeWordChoices_TopLeft(g, w, h, placed, word) ==
  IF Len(placed) = 0
  THEN { IF CW_canPlace(g, w, h, word, 0, 0, firstDir)
         THEN Placement(0, 0, firstDir)
         ELSE IF CW_canPlace(g, w, h, word, 0, 0, "horizontal")
         THEN Placement(0, 0, "horizontal")
         ELSE Skip
         : firstDir \in {"horizontal", "vertical"} }
  ELSE LET scored == CW_scored(g, w, h, word)
           pickFrom == Min(pickLimit, Len(scored))
       IN  IF Len(scored) > 0
           THEN {scored[j].p : j \in 1 .. pickFrom}
           ELSE {Skip}

\* what one call of _placeWord may decide, over the outcomes of Math.random():
\* a placement to write, or Skip
CW_placeWordChoices(g, w, h, placed, word) ==
  IF Len(placed) = 0
  THEN LET startRow == h \div 2
           startCol == (w - Len(word)) \div 2
       IN  { LET firstRow == IF firstDir = "horizontal" THEN startRow
                             ELSE (h - Len(word)) \div 2
                 firstCol == IF firstDir = "horizontal" THEN startCol ELSE w \div 2
             IN  IF CW_canPlace(g, w, h, word, firstRow, firstCol, firstDir)
                 THEN Placement(firstRow, firstCol, firstDir)
                 ELSE IF CW_canPlace(g, w, h, word, startRow, startCol, "horizontal")
                 THEN Placement(startRow, startCol, "horizontal")
                 ELSE Skip
             : firstDir \in {"horizontal", "vertical"} }
  ELSE LET scored == CW_scored(g, w, h, word)
           pickFrom == Min(pickLimit, Len(scored))
       IN  IF Len(scored) > 0
           THEN {scored[j].p : j \in 1 .. pickFrom}
           ELSE {Skip}

----------------------------------------------------------------------------
(* CrosswordGenerator: word order, crop, clue numbers *)

\* [...wordsData].sort((a, b) => b.word.length - a.word.length): stable
RECURSIVE SortByLengthDesc(_)
SortByLengthDesc(seq) ==
  IF seq = <<>> THEN <<>>
  ELSE LET top == SetMax({Len(seq[j].word) : j \in 1 .. Len(seq)})
           k == SetMin({j \in 1 .. Len(seq) : Len(seq[j].word) = top})
       IN  <<seq[k]>> \o SortByLengthDesc(RemoveAt(seq, k))

\* the second sort of an attempt: the comparator orders different lengths and
\* answers Math.random() - 0.5 for equal lengths, so the result is some
\* arrangement of the same items with lengths non-increasing
CW_attemptOrders(baseSorted) ==
  LET n == Len(baseSorted)
      perms == {f \in [1 .. n -> 1 .. n] : \A a, b \in 1 .. n : a # b => f[a] # f[b]}
  IN  {s \in {[j \in 1 .. n |-> baseSorted[f[j]]] : f \in perms} :
         \A j \in 1 .. n - 1 : Len(s[j].word) >= Len(s[j + 1].word)}

\* mutant of CW_cropBounds: the margin is left out
CW_cropBounds_NoMargin(bbox, w, h, margin) ==
  [minR |-> bbox.minR, maxR |-> bbox.maxR, minC |-> bbox.minC, maxC |-> bbox.maxC]

\* _cropToBoundingBox: the box widened by the margin, clamped to the grid
CW_cropBounds(bbox, w, h, margin) ==
  [minR |-> Max(0, bbox.minR - margin), maxR |-> Min(h - 1, bbox.maxR + margin),
   minC |-> Max(0, bbox.minC - margin), maxC |-> Min(w - 1, bbox.maxC + margin)]

\* mutant of CW_translate: only the row is translated
CW_translate_RowOnly(placed, minR, minC) ==
  [j \in 1 .. Len(placed) |-> [placed[j] EXCEPT !.row = placed[j].row - minR]]

\* _cropToBoundingBox: placedWords.map(w => ({...w, row: w.row - minR, col: w.col - minC}))
CW_translate(placed, minR, minC) ==
  [j \in 1 .. Len(placed) |->
     [placed[j] EXCEPT !.row = placed[j].row - minR, !.col = placed[j].col - minC]]

\* mutant of CW_slice: the rows and columns are copied from the top-left corner
CW_slice_NoOffset(g, b) ==
  [p \in Cells(b.maxC - b.minC + 1, b.maxR - b.minR + 1) |-> g[p]]

\* the grid cut to rows minR..maxR and columns minC..maxC
CW_slice(g, b) ==
  [p \in Cells(b.maxC - b.minC + 1, b.maxR - b.minR + 1) |-> g[<<p[1] + b.minR, p[2] + b.minC>>]]

\* mutant of CW_cropToBoundingBox: no early return for an empty grid, so the
\* row loop runs zero times and the grid becomes []
CW_cropToBoundingBox_NoGuard(g, w, h, placed, margin) ==
  LET bbox == CW_boundingBox(g) IN
  IF bbox.none THEN [grid |-> <<>>, width |-> 0, height |-> 0, placedWords |-> placed]
  ELSE LET b == CW_cropBounds(bbox, w, h, margin) IN
       [grid |-> CW_slice(g, b),
        width |-> b.maxC - b.minC + 1,
        height |-> b.maxR - b.minR + 1,
        placedWords |-> CW_translate(placed, b.minR, b.minC)]

\* _cropToBoundingBox(margin): [grid, width, height, placedWords] afterwards
CW_cropToBoundingBox(g, w, h, placed, margin) ==
  LET bbox == CW_boundingBox(g) IN
  IF bbox.none THEN [grid |-> g, width |-> w, height |-> h, placedWords |-> placed]
  ELSE LET b == CW_cropBounds(bbox, w, h, margin) IN
       [grid |-> CW_slice(g, b),
        width |-> b.maxC - b.minC + 1,
        height |-> b.maxR - b.minR + 1,
        placedWords |-> CW_translate(placed, b.minR, b.minC)]

\* starts: the distinct start cells in first-seen order
RECURSIVE CW_starts(_)
CW_starts(placed) ==
  IF placed = <<>> THEN <<>>
  ELSE LET front == CW_starts(SubSeq(placed, 1, Len(placed) - 1))
           key == <<placed[Len(placed)].row, placed[Len(placed)].col>>
       IN  IF \E j \in 1 .. Len(front) : front[j] = key THEN front
           ELSE Append(front, key)

\* mutant of StartBefore: columns are compared before rows
StartBefore_ColumnFirst(a, b) == a[2] < b[2] \/ (a[2] = b[2] /\ a[1] < b[1])

\* (a.r - b.r) || (a.c - b.c) < 0
StartBefore(a, b) == a[1] < b[1] \/ (a[1] = b[1] /\ a[2] < b[2])

\* starts.sort(...): ascending by row, then column (the keys are distinct)
RECURSIVE SortStarts(_)
SortStarts(seq) ==
  IF seq = <<>> THEN <<>>
  ELSE LET k == CHOOSE j \in 1 .. Len(seq) :
                  \A m \in 1 .. Len(seq) : m = j \/ StartBefore(seq[j], seq[m])
       IN  <<seq[k]>> \o SortStarts(RemoveAt(seq, k))

\* mutant of CW_assignClueNumbers: numbered by position in placedWords
CW_assignClueNumbers_ByOrder(placed) ==
  [j \in 1 .. Len(placed) |-> [placed[j] EXCEPT !.number = j]]

\* _assignClueNumbers: number = 1 + index of the start cell in the sorted starts,
\* 0 for a key the map does not hold
CW_assignClueNumbers(placed) ==
  LET starts == SortStarts(CW_starts(placed))
      numberByKey(key) ==
        IF \E j \in 1 .. Len(starts) : starts[j] = key
        THEN CHOOSE j \in 1 .. Len(starts) : starts[j] = key
        ELSE 0
  IN  [j \in 1 .. Len(placed) |->
         [placed[j] EXCEPT !.number = numberByKey(<<placed[j].row, placed[j].col>>)]]

----------------------------------------------------------------------------
(* Inputs of the crossword runs *)

Item(word, definition) == [word |-> word, definition |-> definition]

\* word pools the word lists are cut from
Pools ==
  { <<Item(<<1, 2, 3>>, "d1"), Item(<<1, 3>>, "d2"), Item(<<2, 2>>, "d3"), Item(<<3, 1>>, "d4")>>,
    <<Item(<<2, 1>>, "d1"), Item(<<1, 2, 3, 1>>, "d2"), Item(<<3, 3>>, "d3")>>,
    <<Item(<<1, 2, 1, 2, 1>>, "d1"), Item(<<3, 2, 3, 2, 3>>, "d2")>>,
    <<Item(<<1, 2>>, "d1"), Item(<<1, 2>>, "d1")>>,
    <<Item(<<1, 3>>, "d1"), Item(<<1, 2>>, "d2")>>,
    <<Item(<<2>>, "d1")>>,
    <<Item(<<1, 1>>, "d1"), Item(<<2, 2>>, "d2"), Item(<<3>>, "d3")>>,
    <<Item(<<1, 2, 3, 1>>, "d1")>>,
    <<Item(<<1, 2, 1>>, "d1"), Item(<<3, 3>>, "d2"), Item(<<1, 3>>, "d3")>>,
    <<Item(<<1, 1, 1, 1>>, "d1"), Item(<<1, 1>>, "d2")>> }

CW_WordLists ==
  {SubSeq(pool, 1, Min(k, Len(pool))) : pool \in Pools, k \in 0 .. MaxWords}

CW_Sizes == (MinSide .. MaxSide) \X (MinSide .. MaxSide)

\* the variables a run does not use
NoCall == [made |-> FALSE]
ScrIdle ==
  /\ scrambles = <<>>
  /\ letters = <<>>
  /\ scrambledWord = <<>>
  /\ scrAttempts = 0
ValIdle ==
  /\ prevGrid = <<>>
  /\ lastCall = NoCall

----------------------------------------------------------------------------
(* CrosswordGenerator.generate *)

NoGrid == [null |-> TRUE]

\* the head of a loop iteration: fresh grid, fresh placement list, attempt order
CW_beginAttempt ==
  /\ grid' = EmptyGrid(width, height)
  /\ placedWords' = <<>>
  /\ \E order \in CW_attemptOrders(SortByLengthDesc(wordsData)) : sortedWords' = order
  /\ idx' = 1
  /\ pc' = "place"

\* constructor: new CrosswordGenerator(width, height)
CW_Init ==
  /\ pc = "constructed"
  /\ wordsData \in CW_WordLists
  /\ \E size \in CW_Sizes : ctor = [width |-> size[1], height |-> size[2]]
  /\ width = ctor.width
  /\ height = ctor.height
  /\ grid = EmptyGrid(width, height)
  /\ placedWords = <<>>
  /\ sortedWords = <<>>
  /\ idx = 0
  /\ attempt = 0
  /\ bestGrid = NoGrid
  /\ bestPlaced = <<>>
  /\ bestScore = NegInf
  /\ ScrIdle
  /\ ValIdle

\* generate() up to the first _placeWord call
CW_Generate ==
  /\ pc = "constructed"
  /\ attempt' = 0
  /\ bestGrid' = NoGrid
  /\ bestPlaced' = <<>>
  /\ bestScore' = NegInf
  /\ CW_beginAttempt
  /\ UNCHANGED <<ctor, wordsData, width, height, scrVars, valVars>>

\* one iteration of the for-of loop: this._placeWord(wordItem)
CW_PlaceWord ==
  /\ pc = "place"
  /\ idx <= Len(sortedWords)
  /\ \E ch \in CW_placeWordChoices(grid, width, height, placedWords, sortedWords[idx].word) :
       IF ch.skip
       THEN UNCHANGED <<grid, placedWords>>
       ELSE /\ grid' = CW_addWordToGrid(grid, sortedWords[idx].word, ch.r, ch.c, ch.direction)
            /\ placedWords' = CW_pushPlaced(placedWords, sortedWords[idx], ch.r, ch.c,
                                            ch.direction)
  /\ idx' = idx + 1
  /\ UNCHANGED <<pc, ctor, wordsData, width, height, sortedWords, attempt,
                 bestVars, scrVars, valVars>>

\* the tail of a loop iteration (score, keep the best) and the head of the next
CW_EndAttempt ==
  /\ pc = "place"
  /\ idx > Len(sortedWords)
  /\ LET score == CW_scoreCurrentLayout(grid, width, height, placedWords) IN
     IF ScoreGreater(score, bestScore)
     THEN /\ bestScore' = score
          /\ bestGrid' = [null |-> FALSE, g |-> grid]
          /\ bestPlaced' = placedWords
     ELSE UNCHANGED bestVars
  /\ attempt' = attempt + 1
  /\ IF attempt + 1 < attempts
     THEN CW_beginAttempt
     ELSE /\ pc' = "loopExit"
          /\ UNCHANGED <<grid, placedWords, sortedWords, idx>>
  /\ UNCHANGED <<ctor, wordsData, width, height, scrVars, valVars>>

\* after the loop: take the best, crop, number, return
CW_Return ==
  /\ pc = "loopExit"
  /\ LET g0 == IF bestGrid.null THEN grid ELSE bestGrid.g
         cropped == CW_cropToBoundingBox(g0, width, height, bestPlaced, 1)
     IN  /\ grid' = cropped.grid
         /\ width' = cropped.width
         /\ height' = cropped.height
         /\ placedWords' = CW_assignClueNumbers(cropped.placedWords)
  /\ pc' = "done"
  /\ UNCHANGED <<ctor, wordsData, loopVars, bestVars, scrVars, valVars>>

Init == CW_Init

Next == CW_Generate \/ CW_PlaceWord \/ CW_EndAttempt \/ CW_Return

Spec == Init /\ [][Next]_vars

----------------------------------------------------------------------------
(* A generator instance used for more than one generate call *)

\* generate() called again on an instance whose earlier call has returned: the
\* locals are new, the grids are built from this.width and this.height as the
\* earlier call left them; the call is given the same word list
CW_GenerateAgain ==
  /\ pc = "done"
  /\ attempt' = 0
  /\ bestGrid' = NoGrid
  /\ bestPlaced' = <<>>
  /\ bestScore' = NegInf
  /\ CW_beginAttempt
  /\ UNCHANGED <<ctor, wordsData, width, height, scrVars, valVars>>

NextSecondCall ==
  CW_Generate \/ CW_PlaceWord \/ CW_EndAttempt \/ CW_Return \/ CW_GenerateAgain

SpecSecondCall == Init /\ [][NextSecondCall]_vars

----------------------------------------------------------------------------

(* WordSearchGenerator *)

\* mutant of WS_canPlace: the letter already in the cell is not compared
WS_canPlace_Overwrite(g, w, h, word, row, col, direction) ==
  \A i \in 0 .. Len(word) - 1 :
    LET p == CellAt(row, col, direction, i) IN
    ~(p[1] < 0 \/ p[1] >= h \/ p[2] < 0 \/ p[2] >= w)

\* mutant of WS_canPlace: the bounds test accepts r = height and c = width
WS_canPlace_OffByOne(g, w, h, word, row, col, direction) ==
  \A i \in 0 .. Len(word) - 1 :
    LET p == CellAt(row, col, direction, i) IN
    /\ ~(p[1] < 0 \/ p[1] > h \/ p[2] < 0 \/ p[2] > w)
    /\ p \in DOMAIN g => ~(g[p] # EMPTY /\ g[p] # word[i + 1])

\* _canPlace: (r, c) walks from (row, col) along the direction; every cell is
\* inside the grid and is empty or holds word[i]
WS_canPlace(g, w, h, word, row, col, direction) ==
  \A i \in 0 .. Len(word) - 1 :
    LET p == CellAt(row, col, direction, i) IN
    /\ ~(p[1] < 0 \/ p[1] >= h \/ p[2] < 0 \/ p[2] >= w)
    /\ ~(g[p] # EMPTY /\ g[p] # word[i + 1])

\* mutant of WS_addWordToGrid: the loop stops one letter early
WS_addWordToGrid_SkipLast(g, word, row, col, direction) ==
  LET at(i) == CellAt(row, col, direction, i)
      cells == {at(i) : i \in 0 .. Len(word) - 2}
  IN  [p \in DOMAIN g |->
         IF p \in cells
         THEN word[(CHOOSE i \in 0 .. Len(word) - 2 : at(i) = p) + 1]
         ELSE g[p]]

\* _addWordToGrid, the grid part: the same walk, writing word[i]
WS_addWordToGrid(g, word, row, col, direction) ==
  LET at(i) == CellAt(row, col, direction, i)
      cells == {at(i) : i \in 0 .. Len(word) - 1}
  IN  [p \in DOMAIN g |->
         IF p \in cells
         THEN word[(CHOOSE i \in 0 .. Len(word) - 1 : at(i) = p) + 1]
         ELSE g[p]]

\* mutant of WS_pushPlaced: the number is the list length before the push
WS_pushPlaced_ZeroBased(placed, item, row, col, direction) ==
  Append(placed, [word |-> item.word, definition |-> item.definition,
                  row |-> row, col |-> col, direction |-> direction,
                  number |-> Len(placed)])

\* _addWordToGrid, the placedWords.push part: number is the new list length
WS_pushPlaced(placed, item, row, col, direction) ==
  Append(placed, [word |-> item.word, definition |-> item.definition,
                  row |-> row, col |-> col, direction |-> direction,
                  number |-> Len(placed) + 1])

directions == <<"horizontal", "vertical", "diagonal-down", "diagonal-up">>

\* mutant of WS_moreDraws: the draw loop has no limit
WS_moreDraws_Unbounded(a) == TRUE

\* the condition of the draw loop: attempt < 50
WS_moreDraws(a) == a < drawLimit

\* the letters Math.random() can select in the fill pass: alphabet[0 .. 32],
\* of which the model draws the first FillDraws
FillLetters == 1 .. Min(FillDraws, alphabetLength)

\* mutant of WS_fillOutcomes: only the cells right of column 0 are filled
WS_fillOutcomes_SkipColumn(g) ==
  LET empty == {p \in DOMAIN g : g[p] = EMPTY /\ p[2] > 0} IN
  {[p \in DOMAIN g |-> IF p \in empty THEN f[p] ELSE g[p]] : f \in [empty -> FillLetters]}

\* _fillEmptySpaces: every empty cell gets a letter of the alphabet; the set of
\* grids the pass can leave
WS_fillOutcomes(g) ==
  LET empty == {p \in DOMAIN g : g[p] = EMPTY} IN
  {[p \in DOMAIN g |-> IF p \in empty THEN f[p] ELSE g[p]] : f \in [empty -> FillLetters]}

WS_Pools ==
  { <<Item(<<1, 2>>, "d1"), Item(<<2, 1>>, "d2"), Item(<<1>>, "d3")>>,
    <<Item(<<1, 2, 1, 2>>, "d1"), Item(<<2, 2>>, "d2"), Item(<<1, 2>>, "d3")>> }

WS_WordLists ==
  {SubSeq(pool, 1, Min(k, Len(pool))) : pool \in WS_Pools, k \in 0 .. WS_MaxWords}

WS_Sizes == (1 .. WS_MaxSide) \X (1 .. WS_MaxSide)

\* constructor: new WordSearchGenerator(width, height)
WS_Init ==
  /\ pc = "ws_constructed"
  /\ wordsData \in WS_WordLists
  /\ \E size \in WS_Sizes : ctor = [width |-> size[1], height |-> size[2]]
  /\ width = ctor.width
  /\ height = ctor.height
  /\ grid = EmptyGrid(width, height)
  /\ placedWords = <<>>
  /\ sortedWords = <<>>
  /\ idx = 0
  /\ attempt = 0
  /\ bestGrid = NoGrid
  /\ bestPlaced = <<>>
  /\ bestScore = NegInf
  /\ ScrIdle
  /\ ValIdle

\* generate() up to the first _placeWord call: reset, sort
WS_Generate ==
  /\ pc = "ws_constructed"
  /\ grid' = EmptyGrid(width, height)
  /\ placedWords' = <<>>
  /\ sortedWords' = SortByLengthDesc(wordsData)
  /\ idx' = 1
  /\ attempt' = 0
  /\ pc' = "ws_place"
  /\ UNCHANGED <<ctor, wordsData, width, height, bestVars, scrVars, valVars>>

\* one iteration of the draw loop of _placeWord
WS_Draw ==
  /\ pc = "ws_place"
  /\ idx <= Len(sortedWords)
  /\ WS_moreDraws(attempt)
  /\ \E d \in 1 .. Len(directions), row \in 0 .. height - 1, col \in 0 .. width - 1 :
       IF WS_canPlace(grid, width, height, sortedWords[idx].word, row, col, directions[d])
       THEN /\ grid' = WS_addWordToGrid(grid, sortedWords[idx].word, row, col, directions[d])
            /\ placedWords' = WS_pushPlaced(placedWords, sortedWords[idx], row, col,
                                            directions[d])
            /\ idx' = idx + 1
            /\ attempt' = 0
       ELSE /\ attempt' = attempt + 1
            /\ UNCHANGED <<grid, placedWords, idx>>
  /\ UNCHANGED <<pc, ctor, wordsData, width, height, sortedWords, bestVars, scrVars, valVars>>

\* the draw loop ends without a placement: the word is dropped
WS_DropWord ==
  /\ pc = "ws_place"
  /\ idx <= Len(sortedWords)
  /\ ~WS_moreDraws(attempt)
  /\ idx' = idx + 1
  /\ attempt' = 0
  /\ UNCHANGED <<pc, ctor, wordsData, genVars, sortedWords, bestVars, scrVars, valVars>>

\* after the words: _fillEmptySpaces and return
WS_Fill ==
  /\ pc = "ws_place"
  /\ idx > Len(sortedWords)
  /\ grid' \in WS_fillOutcomes(grid)
  /\ pc' = "done"
  /\ UNCHANGED <<ctor, wordsData, width, height, placedWords, loopVars, bestVars,
                 scrVars, valVars>>

NextWordSearch == WS_Generate \/ WS_Draw \/ WS_DropWord \/ WS_Fill

SpecWordSearch == WS_Init /\ [][NextWordSearch]_vars

----------------------------------------------------------------------------
(* ScrambleGenerator *)

\* mutant of Swap: letters[i] = letters[j] without the exchange
Swap_Overwrite(seq, a, b) == [seq EXCEPT ![a] = seq[b]]

Swap(seq, a, b) == [seq EXCEPT ![a] = seq[b], ![b] = seq[a]]

\* the Fisher-Yates loop from JS index i down to 1, j = floor(random * (i + 1))
\* drawn from 0..i: the set of arrays it can leave
RECURSIVE SCR_shuffleFrom(_, _)
SCR_shuffleFrom(arr, i) ==
  IF i <= 0 THEN {arr}
  ELSE UNION {SCR_shuffleFrom(Swap(arr, i + 1, j + 1), i - 1) : j \in 0 .. i}

SCR_shuffleOutcomes(arr) == SCR_shuffleFrom(arr, Len(arr) - 1)

\* mutant of SCR_retry: the retry counter is not compared
SCR_retry_Unbounded(word, scrambled, n) == Len(word) > 1 /\ scrambled = word

\* word.length > 1 and the while condition: scrambledWord === word && attempts < 5
SCR_retry(word, scrambled, n) ==
  Len(word) > 1 /\ scrambled = word /\ n < reshuffleLimit

SCR_Pools ==
  { <<Item(<<1, 2>>, "d1"), Item(<<1>>, "d2"), Item(<<1, 2, 3>>, "d3")>>,
    <<Item(<<1, 1>>, "d1"), Item(<<>>, "d2"), Item(<<1, 2, 1>>, "d3")>> }

SCR_WordLists ==
  {SubSeq(pool, 1, Min(k, Len(pool))) : pool \in SCR_Pools, k \in 0 .. SCR_MaxWords}

SCR_Init ==
  /\ pc = "scr_loop"
  /\ wordsData \in SCR_WordLists
  /\ ctor = [width |-> 0, height |-> 0]
  /\ width = 0
  /\ height = 0
  /\ grid = <<>>
  /\ placedWords = <<>>
  /\ sortedWords = <<>>
  /\ idx = 1
  /\ attempt = 0
  /\ bestGrid = NoGrid
  /\ bestPlaced = <<>>
  /\ bestScore = NegInf
  /\ ScrIdle
  /\ ValIdle

\* head of the loop body: split, first shuffle, join
SCR_Shuffle ==
  /\ pc = "scr_loop"
  /\ idx <= Len(wordsData)
  /\ letters' \in SCR_shuffleOutcomes(wordsData[idx].word)
  /\ scrambledWord' = letters'
  /\ scrAttempts' = 0
  /\ pc' = "scr_retry"
  /\ UNCHANGED <<ctor, wordsData, genVars, loopVars, bestVars, scrambles, valVars>>

\* one iteration of the while loop: reshuffle the array as it is now
SCR_Reshuffle ==
  /\ pc = "scr_retry"
  /\ SCR_retry(wordsData[idx].word, scrambledWord, scrAttempts)
  /\ letters' \in SCR_shuffleOutcomes(letters)
  /\ scrambledWord' = letters'
  /\ scrAttempts' = scrAttempts + 1
  /\ UNCHANGED <<pc, ctor, wordsData, genVars, loopVars, bestVars, scrambles, valVars>>

\* scrambles.push(...) and on to the next item
SCR_Push ==
  /\ pc = "scr_retry"
  /\ ~SCR_retry(wordsData[idx].word, scrambledWord, scrAttempts)
  /\ scrambles' = Append(scrambles, [original |-> wordsData[idx].word,
                                     scrambled |-> scrambledWord,
                                     definition |-> wordsData[idx].definition])
  /\ idx' = idx + 1
  /\ pc' = "scr_loop"
  /\ UNCHANGED <<ctor, wordsData, genVars, sortedWords, attempt, bestVars,
                 letters, scrambledWord, scrAttempts, valVars>>

\* return scrambles
SCR_Return ==
  /\ pc = "scr_loop"
  /\ idx > Len(wordsData)
  /\ pc' = "done"
  /\ UNCHANGED <<ctor, wordsData, genVars, loopVars, bestVars, scrVars, valVars>>

NextScramble == SCR_Shuffle \/ SCR_Reshuffle \/ SCR_Push \/ SCR_Return

SpecScramble == SCR_Init /\ [][NextScramble]_vars

----------------------------------------------------------------------------
(* The three generators together *)

InitAll == CW_Init \/ WS_Init \/ SCR_Init

NextAll ==
  \/ CW_Generate \/ CW_PlaceWord \/ CW_EndAttempt \/ CW_Return
  \/ WS_Generate \/ WS_Draw \/ WS_DropWord \/ WS_Fill
  \/ SCR_Shuffle \/ SCR_Reshuffle \/ SCR_Push \/ SCR_Return

SpecAll == InitAll /\ [][NextAll]_vars

----------------------------------------------------------------------------
(* The validators on arbitrary grids: one accepted call and its write *)

V_Sizes == {size \in (2 .. V_MaxSide) \X (2 .. V_MaxSide) : size[1] * size[2] <= V_MaxCells}
V_Chars == 0 .. V_Letters

\* the words of 1..V_MaxLen letters
V_Words == UNION {[1 .. n -> 1 .. V_Letters] : n \in 1 .. V_MaxLen}

V_Init ==
  /\ pc = "v_ready"
  /\ wordsData = <<>>
  /\ \E size \in V_Sizes : ctor = [width |-> size[1], height |-> size[2]]
  /\ width = ctor.width
  /\ height = ctor.height
  /\ grid \in [Cells(width, height) -> V_Chars]
  /\ placedWords = <<>>
  /\ sortedWords = <<>>
  /\ idx = 0
  /\ attempt = 0
  /\ bestGrid = NoGrid
  /\ bestPlaced = <<>>
  /\ bestScore = NegInf
  /\ ScrIdle
  /\ prevGrid = grid
  /\ lastCall = NoCall

Call(gen, word, row, col, direction) ==
  [made |-> TRUE, gen |-> gen, word |-> word, row |-> row, col |-> col,
   direction |-> direction]

\* CrosswordGenerator: if (this._canPlace(...)) this._addWordToGrid(...)
V_Crossword ==
  /\ pc = "v_ready"
  /\ \E word \in V_Words, row \in -1 .. height, col \in -1 .. width,
        direction \in {"horizontal", "vertical"} :
       /\ CW_canPlace(grid, width, height, word, row, col, direction)
       /\ grid' = CW_addWordToGrid(grid, word, row, col, direction)
       /\ placedWords' = CW_pushPlaced(placedWords, Item(word, "d1"), row, col, direction)
       /\ lastCall' = Call("crossword", word, row, col, direction)
  /\ pc' = "v_called"
  /\ UNCHANGED <<ctor, wordsData, width, height, loopVars, bestVars, scrVars, prevGrid>>

\* WordSearchGenerator: if (this._canPlace(...)) this._addWordToGrid(...)
V_WordSearch ==
  /\ pc = "v_ready"
  /\ \E word \in V_Words, row \in -1 .. height, col \in -1 .. width,
        d \in 1 .. Len(directions) :
       /\ WS_canPlace(grid, width, height, word, row, col, directions[d])
       /\ grid' = WS_addWordToGrid(grid, word, row, col, directions[d])
       /\ placedWords' = WS_pushPlaced(placedWords, Item(word, "d1"), row, col, directions[d])
       /\ lastCall' = Call("wordsearch", word, row, col, directions[d])
  /\ pc' = "v_called"
  /\ UNCHANGED <<ctor, wordsData, width, height, loopVars, bestVars, scrVars, prevGrid>>

NextValidator == V_Crossword \/ V_WordSearch

SpecValidator == V_Init /\ [][NextValidator]_vars

----------------------------------------------------------------------------
(* Reading a placement back from a grid *)

\* the cells of a placed word: its start cell advanced i steps along its direction
WordCells(pw) == {CellAt(pw.row, pw.col, pw.direction, i) : i \in 0 .. Len(pw.word) - 1}

\* walking the grid g from the start cell of pw spells pw.word
Spells(g, pw) ==
  \A i \in 0 .. Len(pw.word) - 1 :
    /\ CellAt(pw.row, pw.col, pw.direction, i) \in DOMAIN g
    /\ g[CellAt(pw.row, pw.col, pw.direction, i)] = pw.word[i + 1]

Placed == 1 .. Len(placedWords)

SharesCell(a, b) == WordCells(placedWords[a]) \cap WordCells(placedWords[b]) # {}

\* the placed words reachable from word 1 over shared cells
RECURSIVE ReachFrom(_)
ReachFrom(S) ==
  LET T == S \cup {b \in Placed : \E a \in S : SharesCell(a, b)} IN
  IF T = S THEN S ELSE ReachFrom(T)

Adjacent(p, q) == Abs(p[1] - q[1]) + Abs(p[2] - q[2]) = 1

----------------------------------------------------------------------------
(* Claims about the crossword generator *)

\* C2: with at least two placed words, every placed word shares a cell with
\* another placed word and the graph of words joined by shared cells is
\* connected, after every placement of an attempt and in the returned result.
C2_Connectivity ==
  Len(placedWords) >= 2 =>
    /\ \A a \in Placed : \E b \in Placed : b # a /\ SharesCell(a, b)
    /\ ReachFrom({1}) = Placed

\* three words returned, two of which do not touch each other directly
C2_Witness ==
  /\ pc = "done"
  /\ Len(placedWords) = 3
  /\ \E a, b \in Placed : a # b /\ ~SharesCell(a, b)

C4_IntersectionConsistency ==
  pc \in {"place", "loopExit"} => \A j \in Placed : Spells(grid, placedWords[j])

\* a later word has been written across an earlier one
C4_Witness ==
  /\ pc = "place"
  /\ Len(placedWords) >= 2
  /\ \E a, b \in Placed : a < b /\ SharesCell(a, b)
                          /\ placedWords[a].direction # placedWords[b].direction

\* C5: every two orthogonally adjacent non-empty cells of a crossword grid are
\* both covered by one placed word; in particular letters of two parallel words
\* in neighbouring lines touch only inside a crossing word.
C5_NoParallelAdjacency ==
  \A p, q \in Occupied(grid) :
    Adjacent(p, q) =>
      \E j \in Placed : p \in WordCells(placedWords[j]) /\ q \in WordCells(placedWords[j])

\* two vertical words in neighbouring columns with letters side by side, both
\* letters inside one horizontal word
C5_Witness ==
  \E a, b, c \in Placed :
    /\ placedWords[a].direction = "vertical" /\ placedWords[b].direction = "vertical"
    /\ placedWords[b].col = placedWords[a].col + 1
    /\ placedWords[c].direction = "horizontal"
    /\ \E p \in WordCells(placedWords[a]), q \in WordCells(placedWords[b]) :
         /\ Adjacent(p, q)
         /\ p \in WordCells(placedWords[c]) /\ q \in WordCells(placedWords[c])

\* C6: in the returned crossword every placed word lies inside the cropped grid
\* and is spelled by it from its translated start cell, and all placed words
\* were shifted by one common offset from their place in the winning layout.
C6_CropConsistent ==
  pc = "done" =>
    /\ \A j \in Placed :
         /\ WordCells(placedWords[j]) \subseteq Cells(width, height)
         /\ Spells(grid, placedWords[j])
    /\ Len(placedWords) = Len(bestPlaced)
    /\ \E dr \in 0 .. ctor.height, dc \in 0 .. ctor.width :
         \A j \in Placed :
           /\ placedWords[j].row = bestPlaced[j].row - dr
           /\ placedWords[j].col = bestPlaced[j].col - dc
           /\ placedWords[j].word = bestPlaced[j].word
           /\ placedWords[j].definition = bestPlaced[j].definition
           /\ placedWords[j].direction = bestPlaced[j].direction

\* two crossing words returned, moved by the crop
C6_Witness ==
  /\ pc = "done"
  /\ Len(placedWords) >= 2
  /\ placedWords[1].direction # placedWords[2].direction
  /\ \/ placedWords[1].row < bestPlaced[1].row
     \/ placedWords[1].col < bestPlaced[1].col

\* C7: with at least one word placed, the returned grid is the winning grid cut
\* to rows max(0, minR-1)..min(H-1, maxR+1) and columns max(0, minC-1)..
\* min(W-1, maxC+1) of its non-empty cells; so each outermost row/column of the
\* result either holds a letter, or is empty with a letter in the next one inward.
RowUsed(g, r) == \E p \in Occupied(g) : p[1] = r
ColUsed(g, c) == \E p \in Occupied(g) : p[2] = c

C7_CropTight ==
  (pc = "done" /\ Len(placedWords) >= 1) =>
    LET win == bestGrid.g
        top == CHOOSE r \in 0 .. ctor.height - 1 :
                 RowUsed(win, r) /\ \A x \in 0 .. r - 1 : ~RowUsed(win, x)
        bottom == CHOOSE r \in 0 .. ctor.height - 1 :
                 RowUsed(win, r) /\ \A x \in r + 1 .. ctor.height - 1 : ~RowUsed(win, x)
        left == CHOOSE c \in 0 .. ctor.width - 1 :
                 ColUsed(win, c) /\ \A x \in 0 .. c - 1 : ~ColUsed(win, x)
        right == CHOOSE c \in 0 .. ctor.width - 1 :
                 ColUsed(win, c) /\ \A x \in c + 1 .. ctor.width - 1 : ~ColUsed(win, x)
        r0 == IF top = 0 THEN 0 ELSE top - 1
        r1 == IF bottom = ctor.height - 1 THEN bottom ELSE bottom + 1
        c0 == IF left = 0 THEN 0 ELSE left - 1
        c1 == IF right = ctor.width - 1 THEN right ELSE right + 1
    IN  /\ height = r1 - r0 + 1
        /\ width = c1 - c0 + 1
        /\ DOMAIN grid = Cells(width, height)
        /\ \A p \in DOMAIN grid : grid[p] = win[<<p[1] + r0, p[2] + c0>>]
        /\ RowUsed(grid, 0) \/ (height >= 2 /\ RowUsed(grid, 1))
        /\ RowUsed(grid, height - 1) \/ (height >= 2 /\ RowUsed(grid, height - 2))
        /\ ColUsed(grid, 0) \/ (width >= 2 /\ ColUsed(grid, 1))
        /\ ColUsed(grid, width - 1) \/ (width >= 2 /\ ColUsed(grid, width - 2))

\* a result whose first column holds a letter (the content touched the left
\* edge) and whose first row is an empty margin, cut out of a larger grid
C7_Witness ==
  /\ pc = "done"
  /\ Len(placedWords) >= 2
  /\ ColUsed(grid, 0)
  /\ ~RowUsed(grid, 0)
  /\ height < ctor.height

\* C9: when no attempt placed a word (no word fits, or there are no words),
\* generate returns an empty placement list and the all-empty grid of the
\* constructor's height x width, uncropped.
C9_EmptyResult ==
  (/\ pc = "done"
   /\ \/ bestPlaced = <<>>
      \/ \A j \in 1 .. Len(wordsData) :
           Len(wordsData[j].word) > ctor.width /\ Len(wordsData[j].word) > ctor.height)
  => /\ placedWords = <<>>
     /\ width = ctor.width
     /\ height = ctor.height
     /\ grid = EmptyGrid(ctor.width, ctor.height)

\* words were given, none fits, and the call has returned
C9_Witness ==
  /\ pc = "done"
  /\ Len(wordsData) >= 2
  /\ placedWords = <<>>
  /\ bestGrid.null

----------------------------------------------------------------------------
(* Claims about the validators, the word search and termination *)

\* C1: whenever a validator accepts a placement (_canPlace returns true, for
\* the crossword's two directions and the word search's four), every cell the
\* word covers lies inside the grid and the write (_addWordToGrid) leaves every
\* cell that was non-empty before holding the same character.
C1_ValidatorSound ==
  lastCall.made =>
    /\ \A i \in 0 .. Len(lastCall.word) - 1 :
         CellAt(lastCall.row, lastCall.col, lastCall.direction, i) \in Cells(width, height)
    /\ DOMAIN grid = DOMAIN prevGrid
    /\ \A p \in DOMAIN prevGrid : prevGrid[p] # EMPTY => grid[p] = prevGrid[p]

\* an accepted crossword placement that crosses a letter already on the grid
\* and writes a new one
C1_Witness ==
  /\ lastCall.made
  /\ lastCall.gen = "crossword"
  /\ Len(lastCall.word) = 3
  /\ \E i, k \in 0 .. 2 :
       /\ prevGrid[CellAt(lastCall.row, lastCall.col, lastCall.direction, i)] # EMPTY
       /\ prevGrid[CellAt(lastCall.row, lastCall.col, lastCall.direction, k)] = EMPTY
       /\ grid[CellAt(lastCall.row, lastCall.col, lastCall.direction, k)] # EMPTY

\* C8: the grid returned by the word search has the constructor's height rows of
\* width cells and no empty cell, whatever the word list (empty, or with no
\* placeable word).
C8_WordSearchCoverage ==
  pc = "done" =>
    /\ width = ctor.width /\ height = ctor.height
    /\ DOMAIN grid = Cells(ctor.width, ctor.height)
    /\ \A p \in DOMAIN grid : grid[p] # EMPTY

\* words were given, none was placed, and the returned grid is filled
C8_Witness ==
  /\ pc = "done"
  /\ Len(wordsData) >= 1
  /\ placedWords = <<>>
  /\ width * height >= 4
  /\ \A p \in DOMAIN grid : grid[p] \in FillLetters

\* C10: every run of the three generate methods reaches its return: the work
\* left (C10_Measure) is never negative and drops with every step, and a step
\* is possible until the return, so no run is longer than its first measure
\* and none stops early; the crossword leaves its loop after exactly 120
\* attempts each of which passes every word once, the word search stops a word
\* after at most 50 draws, the scramble after at most 5 reshuffles.
C10_Measure ==
  LET n == Len(wordsData) IN
  CASE pc = "constructed"    -> attempts * (n + 2) + 2
    [] pc = "place"          -> (attempts - attempt) * (n + 2) - idx + 2
    [] pc = "loopExit"       -> 1
    [] pc = "ws_constructed" -> (n + 1) * (drawLimit + 2)
    [] pc = "ws_place"       -> (n + 1 - idx) * (drawLimit + 2) + (drawLimit - attempt) + 1
    [] pc = "scr_loop"       -> (n + 1 - idx) * (reshuffleLimit + 3) + 1
    [] pc = "scr_retry"      -> (n + 1 - idx) * (reshuffleLimit + 3) - 1 - scrAttempts
    [] pc = "done"           -> 0

C10_Counts ==
  /\ pc = "place" => /\ attempt < attempts
                     /\ Len(sortedWords) = Len(wordsData)
                     /\ idx \in 1 .. Len(wordsData) + 1
  /\ pc = "loopExit" => attempt = attempts
  /\ pc = "ws_place" => attempt <= drawLimit /\ idx \in 1 .. Len(wordsData) + 1
  /\ pc = "scr_retry" => scrAttempts <= reshuffleLimit

C10_Step ==
  /\ C10_Measure' < C10_Measure
  /\ (pc = "place" /\ attempt' # attempt) =>
        attempt' = attempt + 1 /\ idx = Len(wordsData) + 1
  /\ (pc = "place" /\ attempt' = attempt) => idx' = idx + 1

\* some step of the running call is possible: the position has a step whose
\* guard holds and whose random choice has at least one outcome
C10_CanStep ==
  CASE pc = "constructed"    -> CW_attemptOrders(SortByLengthDesc(wordsData)) # {}
    [] pc = "place"          ->
         IF idx <= Len(sortedWords)
         THEN CW_placeWordChoices(grid, width, height, placedWords,
                                  sortedWords[idx].word) # {}
         ELSE attempt + 1 < attempts =>
                CW_attemptOrders(SortByLengthDesc(wordsData)) # {}
    [] pc = "loopExit"       -> TRUE
    [] pc = "ws_constructed" -> TRUE
    [] pc = "ws_place"       ->
         IF idx <= Len(sortedWords)
         THEN WS_moreDraws(attempt) => (height >= 1 /\ width >= 1)
         ELSE WS_fillOutcomes(grid) # {}
    [] pc = "scr_loop"       ->
         idx <= Len(wordsData) => SCR_shuffleOutcomes(wordsData[idx].word) # {}
    [] pc = "scr_retry"      ->
         SCR_retry(wordsData[idx].word, scrambledWord, scrAttempts) =>
           SCR_shuffleOutcomes(letters) # {}
    [] pc = "done"           -> TRUE

C10_Termination ==
  /\ [](C10_Counts /\ C10_Measure >= 0 /\ C10_CanStep)
  /\ [][C10_Step]_vars

\* a crossword call over two words has returned after its 120 attempts
C10_Witness ==
  /\ pc = "done"
  /\ attempt = attempts
  /\ Len(wordsData) >= 2
  /\ Len(placedWords) >= 1

----------------------------------------------------------------------------
(* Claims about what the generators return *)

\* the (word, definition) pair of a word item or of a placement
ItemOf(p) == [word |-> p.word, definition |-> p.definition]

CountIn(seq, it) == Cardinality({j \in 1 .. Len(seq) : ItemOf(seq[j]) = it})

\* seq, as a multiset of (word, definition) pairs, is a sub-multiset of wordsData
SubMultisetOfInput(seq) ==
  \A j \in 1 .. Len(seq) :
    CountIn(seq, ItemOf(seq[j])) <= CountIn(wordsData, ItemOf(seq[j]))

\* C11: in the crossword and the word-search generator, during the call and in
\* the returned result, the placed words (and the stored best placement list)
\* are, as a multiset of (word, definition) pairs, a sub-multiset of the input:
\* no pair is invented and none is placed more often than the input holds it;
\* a word that is not placed is left out and the call goes on to its return.
C11_OmissionOnly ==
  /\ SubMultisetOfInput(placedWords)
  /\ SubMultisetOfInput(bestPlaced)
  /\ pc = "done" => Len(placedWords) \in 0 .. Len(wordsData)

\* a crossword call has returned with some, but not all, of its words placed
C11_Witness ==
  /\ pc = "done"
  /\ attempt = attempts
  /\ Len(placedWords) >= 1
  /\ Len(placedWords) < Len(wordsData)

\* the call is given exactly one word, of a length L with L + 2 <= min(width, height)
C12_SingleWordInput ==
  /\ Len(wordsData) = 1
  /\ Len(wordsData[1].word) + 2 <= Min(ctor.width, ctor.height)

\* C12: for exactly one input word of length L with L + 2 <= min(width, height),
\* the crossword result holds exactly that word, numbered 1, at row 1, col 1 of
\* the returned grid, which is 3 rows by L + 2 columns for a horizontal word
\* or L + 2 rows by 3 columns for a vertical one.
C12_SingleWord ==
  (pc = "done" /\ C12_SingleWordInput) =>
    LET L == Len(wordsData[1].word) IN
    /\ Len(placedWords) = 1
    /\ ItemOf(placedWords[1]) = wordsData[1]
    /\ placedWords[1].number = 1
    /\ placedWords[1].row = 1
    /\ placedWords[1].col = 1
    /\ DOMAIN grid = Cells(width, height)
    /\ \/ (placedWords[1].direction = "horizontal" /\ height = 3 /\ width = L + 2)
       \/ (placedWords[1].direction = "vertical" /\ height = L + 2 /\ width = 3)

\* a single two-letter word was returned vertical, in a grid of 4 rows by 3 columns
C12_Witness ==
  /\ pc = "done"
  /\ C12_SingleWordInput
  /\ Len(wordsData[1].word) = 2
  /\ placedWords[1].direction = "vertical"
  /\ height = 4

LettersOf(word) == {word[j] : j \in 1 .. Len(word)}

\* no two items of the input have a letter in common
C13_NoSharedLetter ==
  \A a, b \in 1 .. Len(wordsData) :
    a # b => LettersOf(wordsData[a].word) \cap LettersOf(wordsData[b].word) = {}

\* C13: when no two input words share a letter, at most one word is placed in
\* any attempt, in the stored best and in the result; for two such words, both
\* of length at most the grid width, the result holds exactly one word, the
\* first one processed (a longest one), and the other is dropped.
C13_NoCommonLetter ==
  C13_NoSharedLetter =>
    /\ Len(placedWords) <= 1
    /\ Len(bestPlaced) <= 1
    /\ (/\ pc = "done"
        /\ Len(wordsData) = 2
        /\ \A j \in 1 .. 2 : Len(wordsData[j].word) <= ctor.width)
       => /\ Len(placedWords) = 1
          /\ \A j \in 1 .. 2 : Len(placedWords[1].word) >= Len(wordsData[j].word)

\* two words without a common letter were given and one of them was returned
C13_Witness ==
  /\ pc = "done"
  /\ Len(wordsData) = 2
  /\ C13_NoSharedLetter
  /\ Len(placedWords) = 1

----------------------------------------------------------------------------
(* Claims about the word-search generator *)

\* the word is longer than both sides of the grid
WS_OverLong(word) == Len(word) > Max(width, height)

\* C14: a word longer than max(width, height) is never among the placed words
\* of the word search: while it is the current word no draw places it, it is
\* left only when the 50 draws are used up, the words after it are still
\* processed, and the returned grid has no empty cell.
C14_OverLongInv ==
  /\ \A j \in 1 .. Len(placedWords) : ~WS_OverLong(placedWords[j].word)
  /\ pc = "done" => /\ idx = Len(wordsData) + 1
                    /\ \A p \in DOMAIN grid : grid[p] # EMPTY

C14_OverLongStep ==
  (pc = "ws_place" /\ idx <= Len(sortedWords) /\ WS_OverLong(sortedWords[idx].word)) =>
    /\ placedWords' = placedWords
    /\ grid' = grid
    /\ idx' # idx => (attempt = drawLimit /\ idx' = idx + 1)

C14_OverLongWord == []C14_OverLongInv /\ [][C14_OverLongStep]_vars

\* a list with an over-long word was processed and another of its words placed
C14_Witness ==
  /\ pc = "done"
  /\ \E j \in 1 .. Len(wordsData) : WS_OverLong(wordsData[j].word)
  /\ Len(placedWords) >= 1

\* C15: in the word search the i-th placed word (0-based) has number i + 1, so
\* the numbers are exactly 1..placedWords.length and a dropped word takes none;
\* the entries stand in placement order (a placement appends, nothing is
\* reordered), which is non-increasing word length.
C15_NumberedInv ==
  /\ \A j \in 1 .. Len(placedWords) : placedWords[j].number = j
  /\ \A j \in 1 .. Len(placedWords) - 1 :
       Len(placedWords[j].word) >= Len(placedWords[j + 1].word)

C15_AppendStep ==
  \/ placedWords' = placedWords
  \/ /\ Len(placedWords') = Len(placedWords) + 1
     /\ SubSeq(placedWords', 1, Len(placedWords)) = placedWords
     /\ ItemOf(placedWords'[Len(placedWords')]) = sortedWords[idx]

C15_PlacementOrder == []C15_NumberedInv /\ [][C15_AppendStep]_vars

\* a word search returned two placed words
C15_Witness ==
  /\ pc = "done"
  /\ Len(placedWords) = 2
  /\ \A p \in DOMAIN grid : grid[p] # EMPTY

----------------------------------------------------------------------------
(* Claims about the scramble generator *)

\* the word of the item the loop is at
SCR_word == wordsData[idx].word

\* a and b have the same length and the same number of each character
IsPermutation(a, b) ==
  /\ Len(a) = Len(b)
  /\ \A ch \in LettersOf(a) \cup LettersOf(b) :
       Cardinality({j \in 1 .. Len(a) : a[j] = ch})
         = Cardinality({j \in 1 .. Len(b) : b[j] = ch})

\* C16: the scramble result holds one item per input item in input order: item
\* i has the word of input i as original, the definition of input i, and as
\* scrambled a permutation of original (same length, same multiset of
\* characters); when the call returns the list is as long as the input.
C16_ScrambleShape ==
  /\ Len(scrambles) <= Len(wordsData)
  /\ \A j \in 1 .. Len(scrambles) :
       /\ scrambles[j].original = wordsData[j].word
       /\ scrambles[j].definition = wordsData[j].definition
       /\ IsPermutation(scrambles[j].scrambled, scrambles[j].original)
  /\ pc \in {"scr_loop", "scr_retry"} => Len(scrambles) = idx - 1
  /\ pc = "scr_retry" => IsPermutation(scrambledWord, SCR_word)
  /\ pc = "done" => Len(scrambles) = Len(wordsData)

\* three items were returned and one of them is scrambled to a different string
C16_Witness ==
  /\ pc = "done"
  /\ Len(scrambles) = 3
  /\ \E j \in 1 .. 3 : scrambles[j].scrambled # scrambles[j].original

\* C17: a re-shuffle happens only for a word longer than 1 whose current result
\* equals the original, and at most 5 times after the first shuffle; a result
\* that differs from the original is pushed as it is; an item with scrambled =
\* original and length > 1 is pushed only after the first shuffle and 5
\* re-shuffles all gave the original; a word of length 0 or 1 is never
\* re-shuffled and is pushed unchanged.
C17_RetryInv ==
  pc = "scr_retry" =>
    /\ scrAttempts <= reshuffleLimit
    /\ scrAttempts > 0 => Len(SCR_word) > 1
    /\ Len(SCR_word) <= 1 => scrambledWord = SCR_word

C17_RetryStep ==
  pc = "scr_retry" =>
    /\ scrAttempts' # scrAttempts =>
         /\ scrAttempts' = scrAttempts + 1
         /\ Len(SCR_word) > 1
         /\ scrambledWord = SCR_word
         /\ scrAttempts < reshuffleLimit
    /\ (scrambledWord # SCR_word \/ Len(SCR_word) <= 1) =>
         /\ Len(scrambles') = Len(scrambles) + 1
         /\ scrambles'[Len(scrambles')].scrambled = scrambledWord
    /\ (Len(scrambles') # Len(scrambles) /\ Len(SCR_word) > 1 /\ scrambledWord = SCR_word)
         => scrAttempts = reshuffleLimit

C17_BoundedRetry == []C17_RetryInv /\ [][C17_RetryStep]_vars

\* the first shuffle and 5 re-shuffles of a word longer than 1 all gave the original
C17_Witness ==
  /\ pc = "scr_retry"
  /\ scrAttempts = reshuffleLimit
  /\ Len(SCR_word) > 1
  /\ scrambledWord = SCR_word

----------------------------------------------------------------------------
(* Claims about the attempt search of the crossword generator *)

\* the cells covered by the placements of a list
CoveredCells(placed) == UNION {WordCells(placed[j]) : j \in 1 .. Len(placed)}

\* placedCount*700 + occupiedCells*20 + density*2000 + coverage*300 of a layout
\* on the constructor's grid, as a fraction; density = occupied / box area,
\* coverage = box area / (width * height); no score without a placed word
C18_LayoutScore(placed) ==
  IF Len(placed) = 0 THEN [inf |-> TRUE, num |-> 0, den |-> 1]
  ELSE LET cells == CoveredCells(placed)
           occ == Cardinality(cells)
           area == (SetMax({p[1] : p \in cells}) - SetMin({p[1] : p \in cells}) + 1)
                   * (SetMax({p[2] : p \in cells}) - SetMin({p[2] : p \in cells}) + 1)
           all == ctor.width * ctor.height
       IN  [inf |-> FALSE,
            num |-> Len(placed) * 700 * area * all + occ * 20 * area * all
                    + occ * 2000 * all + area * 300 * area,
            den |-> area * all]

ScoreEq(a, b) == a.inf = b.inf /\ (~a.inf => a.num * b.den = b.num * a.den)

ScoreLess(a, b) == ~b.inf /\ (a.inf \/ a.num * b.den < b.num * a.den)

\* C18: the stored best is a layout with at least one word whose score, by the
\* formula above, is the stored best score; an attempt replaces the stored best
\* exactly when its score is strictly greater, so an attempt with an equal (or
\* smaller) score leaves the earlier one in place and the stored best is the
\* earliest attempt with the maximal score; the result gives the stored best.
C18_BestInv ==
  /\ bestGrid.null <=> bestScore.inf
  /\ bestGrid.null => bestPlaced = <<>>
  /\ ~bestGrid.null =>
       /\ Len(bestPlaced) >= 1
       /\ ScoreEq(bestScore, C18_LayoutScore(bestPlaced))
       /\ Occupied(bestGrid.g) = CoveredCells(bestPlaced)
       /\ \A j \in 1 .. Len(bestPlaced) : Spells(bestGrid.g, bestPlaced[j])
  /\ pc = "done" =>
       /\ Len(placedWords) = Len(bestPlaced)
       /\ \A j \in Placed :
            /\ ItemOf(placedWords[j]) = ItemOf(bestPlaced[j])
            /\ placedWords[j].direction = bestPlaced[j].direction
       /\ ~bestGrid.null =>
            Cardinality(Occupied(grid)) = Cardinality(Occupied(bestGrid.g))

C18_BestStep ==
  IF pc = "place" /\ attempt' # attempt
  THEN IF ScoreLess(bestScore, C18_LayoutScore(placedWords))
       THEN /\ bestGrid' = [null |-> FALSE, g |-> grid]
            /\ bestPlaced' = placedWords
            /\ ScoreEq(bestScore', C18_LayoutScore(placedWords))
       ELSE UNCHANGED bestVars
  ELSE pc # "constructed" => UNCHANGED bestVars

C18_BestAttempt == []C18_BestInv /\ [][C18_BestStep]_vars

\* an attempt ends with a layout that differs from the stored best and has the
\* same score
C18_Witness ==
  /\ pc = "place"
  /\ idx > Len(sortedWords)
  /\ ~bestGrid.null
  /\ placedWords # bestPlaced
  /\ ScoreEq(bestScore, C18_LayoutScore(placedWords))

\* C19: in the crossword result, for two placed words with different start
\* cells, the first has the smaller number exactly when its start cell comes
\* first in reading order of the cropped grid: a smaller row, or the same row
\* and a smaller column.
C19_ReadingOrder ==
  pc = "done" =>
    \A a, b \in Placed :
      <<placedWords[a].row, placedWords[a].col>> # <<placedWords[b].row, placedWords[b].col>>
        => (placedWords[a].number < placedWords[b].number
              <=> \/ placedWords[a].row < placedWords[b].row
                  \/ /\ placedWords[a].row = placedWords[b].row
                     /\ placedWords[a].col < placedWords[b].col)

\* a word placed later starts above and to the right of an earlier one and has
\* the smaller number
C19_Witness ==
  /\ pc = "done"
  /\ \E a, b \in Placed :
       /\ a < b
       /\ placedWords[b].row < placedWords[a].row
       /\ placedWords[b].col > placedWords[a].col
       /\ placedWords[b].number < placedWords[a].number

\* C20: after the crossword call has returned, the generator's width and height
\* are the values given to the constructor.
C20_SizeSurvives ==
  pc = "done" => (width = ctor.width /\ height = ctor.height)

----------------------------------------------------------------------------
(* Claims about the placement steps of the crossword generator *)

\* the word fits the empty grid of the constructor in at least one orientation
FitsGrid(word) == Len(word) <= ctor.width \/ Len(word) <= ctor.height

\* the result part: a word that fits gives a result with at least one placed word
C21_Result ==
  (pc = "done" /\ \E j \in 1 .. Len(wordsData) : FitsGrid(wordsData[j].word))
    => Len(placedWords) >= 1

\* the step part: while no word is on the grid, the words the first-word step
\* has passed over in this attempt fit in neither orientation
C21_SkipsOnlyUnfit ==
  (pc = "place" /\ placedWords = <<>>)
    => \A k \in 1 .. idx - 1 : ~FitsGrid(sortedWords[k].word)

\* C21: if the input holds a word whose length is at most the width or at most
\* the height, the crossword result holds at least one placed word, and the
\* first-word step skips a word only when it fits in neither orientation.
C21_FittingWordPlaced == C21_Result /\ C21_SkipsOnlyUnfit

\* C22: no two entries of the returned crossword placedWords have the same
\* start cell and the same direction, also when the input holds a word twice.
C22_NoStackedPlacements ==
  pc = "done" =>
    \A a, b \in Placed :
      a # b => ~(/\ placedWords[a].row = placedWords[b].row
                 /\ placedWords[a].col = placedWords[b].col
                 /\ placedWords[a].direction = placedWords[b].direction)

----------------------------------------------------------------------------
(* Claims about the validators as predicates *)

\* the cell is outside the grid or empty
EmptyOrOff(g, p) == p \notin DOMAIN g \/ g[p] = EMPTY

\* the four rules of the crossword validator, for a horizontal or vertical word
C23_Rules(g, word, row, col, direction) ==
  LET n == Len(word)
      at(i) == CellAt(row, col, direction, i)
      side(i, d) == IF direction = "horizontal"
                    THEN <<at(i)[1] + d, at(i)[2]>>
                    ELSE <<at(i)[1], at(i)[2] + d>>
  IN  /\ \A i \in 0 .. n - 1 : at(i) \in DOMAIN g
      /\ \A i \in 0 .. n - 1 : g[at(i)] = EMPTY \/ g[at(i)] = word[i + 1]
      /\ \A i \in 0 .. n - 1 :
           g[at(i)] = EMPTY => (EmptyOrOff(g, side(i, -1)) /\ EmptyOrOff(g, side(i, 1)))
      /\ EmptyOrOff(g, at(-1))
      /\ EmptyOrOff(g, at(n))

\* C23: on every grid, for every word, start cell and direction in
\* {horizontal, vertical}, the crossword _canPlace answers true exactly when
\* (1) every covered cell is inside the grid, (2) every covered cell is empty
\* or holds the letter to place, (3) every covered cell that is empty has both
\* neighbours across the word's axis empty or off-grid, and (4) the cell before
\* the first and the cell after the last letter are empty or off-grid; a call
\* that was accepted and written met the four rules on the grid before it.
C23_CrosswordValidatorExact ==
  /\ pc = "v_ready" =>
       \A word \in V_Words, row \in -1 .. height, col \in -1 .. width,
          direction \in {"horizontal", "vertical"} :
         CW_canPlace(grid, width, height, word, row, col, direction)
           <=> C23_Rules(grid, word, row, col, direction)
  /\ (pc = "v_called" /\ lastCall.gen = "crossword") =>
       C23_Rules(prevGrid, lastCall.word, lastCall.row, lastCall.col, lastCall.direction)

\* a grid on which the validator accepts a word crossing a letter already there
\* and rejects another call only for a neighbour across the axis
C23_Witness ==
  /\ pc = "v_ready"
  /\ \E word \in V_Words, row \in 0 .. height - 1, col \in 0 .. width - 1,
        direction \in {"horizontal", "vertical"} :
       /\ CW_canPlace(grid, width, height, word, row, col, direction)
       /\ grid[<<row, col>>] # EMPTY
       /\ Len(word) >= 2
  /\ \E word \in V_Words, row \in 0 .. height - 1, col \in 0 .. width - 1 :
       /\ ~CW_canPlace(grid, width, height, word, row, col, "horizontal")
       /\ col + Len(word) <= width
       /\ \A i \in 0 .. Len(word) - 1 : grid[<<row, col + i>>] = EMPTY
       /\ EmptyOrOff(grid, <<row, col - 1>>)
       /\ EmptyOrOff(grid, <<row, col + Len(word)>>)

\* (dr, dc) of the four word-search directions
C24_Step(direction) ==
  IF direction = "horizontal" THEN [dr |-> 0, dc |-> 1]
  ELSE IF direction = "vertical" THEN [dr |-> 1, dc |-> 0]
  ELSE IF direction = "diagonal-down" THEN [dr |-> 1, dc |-> 1]
  ELSE [dr |-> -1, dc |-> 1]

\* the i-th cell of the word: (row + i*dr, col + i*dc)
C24_Cell(row, col, direction, i) ==
  <<row + i * C24_Step(direction).dr, col + i * C24_Step(direction).dc>>

\* bounds plus compatibility at every covered cell, nothing else
C24_Rules(g, word, row, col, direction) ==
  \A i \in 0 .. Len(word) - 1 :
    /\ C24_Cell(row, col, direction, i) \in DOMAIN g
    /\ \/ g[C24_Cell(row, col, direction, i)] = EMPTY
       \/ g[C24_Cell(row, col, direction, i)] = word[i + 1]

\* C24: on every grid, for every word, start cell and direction of the four,
\* the word-search _canPlace answers true exactly when every cell
\* (row + i*dr, col + i*dc) is inside the grid and is empty or holds the i-th
\* letter, with (dr, dc) = (0,1), (1,0), (1,1), (-1,1) for horizontal,
\* vertical, diagonal-down, diagonal-up (no adjacency or end-cap rule); and
\* _addWordToGrid writes the i-th letter to exactly these cells and no other.
C24_WordSearchValidatorExact ==
  /\ pc = "v_ready" =>
       \A word \in V_Words, row \in -1 .. height, col \in -1 .. width,
          d \in 1 .. Len(directions) :
         WS_canPlace(grid, width, height, word, row, col, directions[d])
           <=> C24_Rules(grid, word, row, col, directions[d])
  /\ (pc = "v_called" /\ lastCall.gen = "wordsearch") =>
       LET covered == {C24_Cell(lastCall.row, lastCall.col, lastCall.direction, i) :
                         i \in 0 .. Len(lastCall.word) - 1}
       IN  /\ C24_Rules(prevGrid, lastCall.word, lastCall.row, lastCall.col,
                        lastCall.direction)
           /\ \A i \in 0 .. Len(lastCall.word) - 1 :
                grid[C24_Cell(lastCall.row, lastCall.col, lastCall.direction, i)]
                  = lastCall.word[i + 1]
           /\ \A p \in DOMAIN grid \ covered : grid[p] = prevGrid[p]

\* an accepted diagonal-up placement next to other letters, crossing one of them
C24_Witness ==
  /\ pc = "v_called"
  /\ lastCall.gen = "wordsearch"
  /\ lastCall.direction = "diagonal-up"
  /\ Len(lastCall.word) >= 2
  /\ prevGrid[<<lastCall.row, lastCall.col>>] # EMPTY
  /\ prevGrid[<<lastCall.row - 1, lastCall.col>>] # EMPTY
  /\ prevGrid[<<lastCall.row - 1, lastCall.col + 1>>] = EMPTY

----------------------------------------------------------------------------
(* Claims about the letters on the crossword grid *)

\* cells (r, c1) .. (r, c2) are a maximal run of letters in row r of g
RowRun(g, r, c1, c2) ==
  /\ \A c \in c1 .. c2 : g[<<r, c>>] # EMPTY
  /\ EmptyOrOff(g, <<r, c1 - 1>>)
  /\ EmptyOrOff(g, <<r, c2 + 1>>)

ColRun(g, c, r1, r2) ==
  /\ \A r \in r1 .. r2 : g[<<r, c>>] # EMPTY
  /\ EmptyOrOff(g, <<r1 - 1, c>>)
  /\ EmptyOrOff(g, <<r2 + 1, c>>)

\* every maximal run of two or more letters of g is the cell set of a word of
\* placed with the run's orientation, and g spells that word
RunsArePlacedWords(g, w, h, placed) ==
  /\ \A r \in 0 .. h - 1 : \A c1 \in 0 .. w - 1 : \A c2 \in c1 + 1 .. w - 1 :
       RowRun(g, r, c1, c2) =>
         \E j \in 1 .. Len(placed) :
           /\ placed[j].direction = "horizontal"
           /\ WordCells(placed[j]) = {<<r, c>> : c \in c1 .. c2}
           /\ Spells(g, placed[j])
  /\ \A c \in 0 .. w - 1 : \A r1 \in 0 .. h - 1 : \A r2 \in r1 + 1 .. h - 1 :
       ColRun(g, c, r1, r2) =>
         \E j \in 1 .. Len(placed) :
           /\ placed[j].direction = "vertical"
           /\ WordCells(placed[j]) = {<<r, c>> : r \in r1 .. r2}
           /\ Spells(g, placed[j])

\* C25: in every crossword grid, during the attempts, in the stored best and
\* in the returned grid, each maximal run of two or more letters in a row is
\* exactly the cells of a horizontal placed word, which it spells, and each
\* such run in a column is exactly the cells of a vertical placed word.
C25_RunsArePlacedWords ==
  /\ pc \in {"place", "loopExit", "done"} =>
       RunsArePlacedWords(grid, width, height, placedWords)
  /\ ~bestGrid.null =>
       RunsArePlacedWords(bestGrid.g, ctor.width, ctor.height, bestPlaced)

\* a returned grid with three words, runs in a row and in a column
C25_Witness ==
  /\ pc = "done"
  /\ Len(placedWords) >= 3
  /\ \E r \in 0 .. height - 1, c1, c2 \in 0 .. width - 1 :
       c2 > c1 /\ RowRun(grid, r, c1, c2)
  /\ \E c \in 0 .. width - 1, r1, r2 \in 0 .. height - 1 :
       r2 > r1 /\ ColRun(grid, c, r1, r2)

----------------------------------------------------------------------------
(* Claims about the attempts of the crossword generator *)

\* the state at the head of an attempt: an all-empty grid of the size given to
\* the constructor and no placements
C26_FreshStart ==
  (pc = "place" /\ idx = 1) =>
    /\ DOMAIN grid = Cells(ctor.width, ctor.height)
    /\ \A p \in DOMAIN grid : grid[p] = EMPTY
    /\ placedWords = <<>>

\* the stored best changes only at the end of an attempt that scores strictly
\* higher, to a copy of that attempt's grid and list (a new call has new locals)
C26_BestStep ==
  (bestGrid' # bestGrid \/ bestPlaced' # bestPlaced) =>
    \/ pc = "done"
    \/ /\ pc = "place"
       /\ idx > Len(sortedWords)
       /\ ScoreGreater(CW_scoreCurrentLayout(grid, width, height, placedWords), bestScore)
       /\ bestGrid' = [null |-> FALSE, g |-> grid]
       /\ bestPlaced' = placedWords

\* C26: every crossword attempt starts from an all-empty grid of the configured
\* size and an empty placement list, and the stored best grid and list are not
\* changed by the placements of a later attempt: they change only when an
\* attempt that scores strictly higher is copied in.
C26_AttemptsIndependent == []C26_FreshStart /\ [][C26_BestStep]_vars

\* some horizontal or vertical placement of word puts letter i of it on a cell
\* (r, c) that holds the same letter, and passes _canPlace
C27_HasCandidate(g, w, h, word) ==
  \E i \in 0 .. Len(word) - 1, r \in 0 .. h - 1, c \in 0 .. w - 1 :
    /\ g[<<r, c>>] = word[i + 1]
    /\ \/ CW_canPlace(g, w, h, word, r, c - i, "horizontal")
       \/ CW_canPlace(g, w, h, word, r - i, c, "vertical")

\* the attempt's order holds the items of the input, each once, longest first
C27_OrderInv ==
  pc = "place" =>
    /\ Len(sortedWords) = Len(wordsData)
    /\ \E f \in [1 .. Len(wordsData) -> 1 .. Len(wordsData)] :
         /\ \A a, b \in 1 .. Len(wordsData) : a # b => f[a] # f[b]
         /\ \A a \in 1 .. Len(wordsData) : sortedWords[a] = wordsData[f[a]]
    /\ \A j \in 1 .. Len(sortedWords) - 1 :
         Len(sortedWords[j].word) >= Len(sortedWords[j + 1].word)
    /\ idx \in 1 .. Len(sortedWords) + 1

\* within an attempt the grid and the list change only in the step that
\* considers the next word of the order and moves on; with a word on the grid
\* that word is placed exactly if it has a candidate, else nothing changes
C27_ConsiderStep ==
  (pc = "place" /\ pc' = "place" /\ attempt' = attempt) =>
    /\ idx <= Len(sortedWords)
    /\ idx' = idx + 1
    /\ sortedWords' = sortedWords
    /\ placedWords # <<>> =>
         LET word == sortedWords[idx].word IN
         IF C27_HasCandidate(grid, width, height, word)
         THEN /\ Len(placedWords') = Len(placedWords) + 1
              /\ SubSeq(placedWords', 1, Len(placedWords)) = placedWords
              /\ placedWords'[Len(placedWords')].word = word
              /\ grid' # grid \/ \E j \in 1 .. Len(placedWords) : placedWords[j].word = word
         ELSE grid' = grid /\ placedWords' = placedWords

\* C27: within one attempt each word is considered exactly once, in
\* non-increasing length order; once a word is on the grid, the word considered
\* is placed if and only if some horizontal or vertical placement through a
\* cell already holding one of its letters passes _canPlace; a dropped word is
\* not considered again in that attempt.
C27_DropWithoutRetry == []C27_OrderInv /\ [][C27_ConsiderStep]_vars

\* a word was dropped after the first word was placed, a later word was placed,
\* and the dropped word has a candidate on the grid as it is now
C27_Witness ==
  /\ pc = "place"
  /\ Len(placedWords) >= 2
  /\ placedWords[1].word = sortedWords[1].word
  /\ \E j \in 2 .. idx - 1 :
       /\ \A k \in 1 .. Len(placedWords) : placedWords[k].word # sortedWords[j].word
       /\ C27_HasCandidate(grid, width, height, sortedWords[j].word)

\* the entries of the candidate list that score strictly higher than placement p
C28_HigherEntries(g, w, h, word, p) ==
  LET cands == CW_possiblePlacements(g, w, h, word) IN
  {j \in 1 .. Len(cands) :
     CW_scorePlacement10(g, w, h, word, cands[j].r, cands[j].c, cands[j].direction)
       > CW_scorePlacement10(g, w, h, word, p.r, p.c, p.direction)}

\* the placement is a candidate: it passes _canPlace and puts a letter of the
\* word on a cell that holds that letter
C28_IsCandidate(g, w, h, word, p) ==
  /\ p.direction \in {"horizontal", "vertical"}
  /\ CW_canPlace(g, w, h, word, p.r, p.c, p.direction)
  /\ \E i \in 0 .. Len(word) - 1 :
       LET cell == IF p.direction = "horizontal" THEN <<p.r, p.c + i>> ELSE <<p.r + i, p.c>>
       IN  cell \in DOMAIN g /\ g[cell] = word[i + 1]

\* the entry appended by a step that placed a word, as a placement
C28_Written ==
  LET e == placedWords'[Len(placedWords')] IN Placement(e.row, e.col, e.direction)

\* a step that places a non-first word writes a candidate that has at most
\* four strictly higher scored entries before it and crosses a letter
C28_ChoiceStep ==
  (pc = "place" /\ pc' = "place" /\ attempt' = attempt /\ placedWords # <<>>
     /\ Len(placedWords') > Len(placedWords)) =>
    LET word == sortedWords[idx].word IN
    /\ C28_IsCandidate(grid, width, height, word, C28_Written)
    /\ Cardinality(C28_HigherEntries(grid, width, height, word, C28_Written)) <= 4
    /\ CW_countIntersectionsForPlacement(grid, width, height, word, C28_Written.r,
                                         C28_Written.c, C28_Written.direction) >= 1
    /\ grid' = CW_addWordToGrid(grid, word, C28_Written.r, C28_Written.c,
                                C28_Written.direction)

\* with a word on the grid and one to five candidates for the next word, each
\* candidate is a possible choice, and with none the word is skipped
C28_AnyOfFew ==
  (pc = "place" /\ idx <= Len(sortedWords) /\ placedWords # <<>>) =>
    LET word == sortedWords[idx].word
        cands == CW_possiblePlacements(grid, width, height, word)
    IN  Len(cands) <= 5 =>
          CW_placeWordChoices(grid, width, height, placedWords, word)
            = IF Len(cands) = 0 THEN {Skip} ELSE {cands[j] : j \in 1 .. Len(cands)}

RECURSIVE C28_GridOf(_, _, _)
C28_GridOf(placed, w, h) ==
  IF placed = <<>> THEN EmptyGrid(w, h)
  ELSE LET e == placed[Len(placed)] IN
       CW_addWordToGrid(C28_GridOf(SubSeq(placed, 1, Len(placed) - 1), w, h),
                        e.word, e.row, e.col, e.direction)

----------------------------------------------------------------------------
(* Claims about the letters on the word-search grid *)

\* every placed word is read off the grid from its start along its direction,
\* and after the return the other cells hold letters of the alphabet
C29_ReadableInv ==
  /\ pc \in {"ws_place", "done"} =>
       \A j \in Placed :
         /\ WordCells(placedWords[j]) \subseteq Cells(width, height)
         /\ Spells(grid, placedWords[j])
  /\ pc = "done" =>
       \A p \in DOMAIN grid \ CoveredCells(placedWords) : grid[p] \in 1 .. alphabetLength

\* no step changes an entry of the list or a cell covered by a placed word
C29_KeepStep ==
  /\ Len(placedWords') >= Len(placedWords)
  /\ SubSeq(placedWords', 1, Len(placedWords)) = placedWords
  /\ \A p \in CoveredCells(placedWords) : grid'[p] = grid[p]

\* C29: in the word-search grid every placed word is spelled from its start
\* cell along its direction inside the grid; later placements and the fill
\* pass change no cell a placed word covers; in the returned grid every cell
\* covered by no placed word holds a character of the 33-letter alphabet.
C29_WordsStayReadable == []C29_ReadableInv /\ [][C29_KeepStep]_vars

\* a returned grid with a diagonal-up word that shares a cell with an earlier
\* word, and a filled cell outside both
C29_Witness ==
  /\ pc = "done"
  /\ Len(placedWords) = 2
  /\ placedWords[2].direction = "diagonal-up"
  /\ Len(placedWords[2].word) >= 2
  /\ WordCells(placedWords[1]) \cap WordCells(placedWords[2]) # {}
  /\ DOMAIN grid \ CoveredCells(placedWords) # {}

\* the letters of g are exactly the letters of the words of placed, all of them
\* horizontal or vertical and inside the w x h grid
NoStrayLetters(g, w, h, placed) ==
  /\ DOMAIN g = Cells(w, h)
  /\ \A j \in 1 .. Len(placed) :
       /\ placed[j].direction \in {"horizontal", "vertical"}
       /\ Spells(g, placed[j])
  /\ \A p \in Occupied(g) :
       \E j \in 1 .. Len(placed) : \E i \in 0 .. Len(placed[j].word) - 1 :
         /\ CellAt(placed[j].row, placed[j].col, placed[j].direction, i) = p
         /\ g[p] = placed[j].word[i + 1]
  /\ Occupied(g) = CoveredCells(placed)

\* C30: in every crossword grid (of an attempt, stored as the best, returned
\* after the crop) every non-empty cell is covered by a placed word and holds
\* that word's letter, so the non-empty cells are the union of the placed
\* words' cells, and the words are horizontal or vertical only.
C30_NoStrayLetters ==
  /\ pc \in {"constructed", "place", "loopExit", "done"} =>
       NoStrayLetters(grid, width, height, placedWords)
  /\ ~bestGrid.null =>
       NoStrayLetters(bestGrid.g, ctor.width, ctor.height, bestPlaced)

\* a returned grid that the crop has cut on the top or on the left, with words
\* of both directions
C30_Witness ==
  /\ pc = "done"
  /\ ~bestGrid.null
  /\ Len(placedWords) >= 2
  /\ \E j \in Placed : placedWords[j].direction = "horizontal"
  /\ \E j \in Placed : placedWords[j].direction = "vertical"
  /\ \E j \in Placed : \/ placedWords[j].row < bestPlaced[j].row
                        \/ placedWords[j].col < bestPlaced[j].col

====
